---- MODULE Spec2Model ----
(***************************************************************************)
(* A model of ts-node-sql-migrator (src/src/index.ts): one CLI invocation  *)
(* runs one action (up, down, reset, new) of one kind (migration, seed)    *)
(* against a ledger table and a directory of script files.                 *)
(*                                                                         *)
(* A file name is a sequence of tokens of an ordered alphabet (the order   *)
(* of their UTF-16 code units), so that split('_'), startsWith, endsWith   *)
(* and Array.sort are computed as the code computes them.  A file's        *)
(* content is a sequence of items: the two markers and pieces of SQL text. *)
(* Every db.query is one step that the database may fail.                  *)
(***************************************************************************)
EXTENDS Integers, Sequences, FiniteSets, TLC

(* ------------------------------ bounds -------------------------------- *)

\* The wall clock stops at MaxClock seconds.
MaxClock == 2

\* The greatest number of items (markers, pieces of text) of a file content.
MaxItems == 4

(* ---------------------------- file names ------------------------------ *)

\* The tokens of file names, in ascending order of their first code unit:
\* '.' (46) < digits (48..57) < '_' (95) < letters (97..).
Alphabet == <<".sql", ".txt", "0", "1", "2", "3", "4", "5", "_", "a", "b">>

CharCode(c) == CHOOSE k \in 1..Len(Alphabet) : Alphabet[k] = c

\* String comparison as Array.prototype.sort() without comparator does it:
\* by code units, a proper prefix first.
RECURSIVE StrLess(_, _)
StrLess(f, g) ==
  IF g = <<>> THEN FALSE
  ELSE IF f = <<>> THEN TRUE
  ELSE IF Head(f) # Head(g) THEN CharCode(Head(f)) < CharCode(Head(g))
  ELSE StrLess(Tail(f), Tail(g))

\* file.endsWith('.sql')
EndsWithSql(file) == Len(file) > 0 /\ file[Len(file)] = ".sql"

\* file.startsWith(prefix)
StartsWith(file, prefix) ==
  /\ Len(prefix) <= Len(file)
  /\ SubSeq(file, 1, Len(prefix)) = prefix

\* file.split('_')[0]: the text before the first underscore, the whole name
\* when it has none.
RECURSIVE SplitVersion(_)
SplitVersion(file) ==
  IF file = <<>> \/ Head(file) = "_" THEN <<>>
  ELSE <<Head(file)>> \o SplitVersion(Tail(file))

\* A sort that puts the greatest name first.
RECURSIVE SortFiles_Descending(_)
SortFiles_Descending(S) ==
  IF S = {} THEN <<>>
  ELSE LET last == CHOOSE f \in S : \A g \in S \ {f} : StrLess(g, f)
       IN  <<last>> \o SortFiles_Descending(S \ {last})

\* Array.prototype.sort() of a set of distinct names: ascending.
RECURSIVE SortFiles(_)
SortFiles(S) ==
  IF S = {} THEN <<>>
  ELSE LET least == CHOOSE f \in S : \A g \in S \ {f} : StrLess(f, g)
       IN  <<least>> \o SortFiles(S \ {least})

\* A reverse() that leaves the array as it is.
Reverse_Not(s) == s

\* Array.prototype.reverse()
Reverse(s) == [k \in 1..Len(s) |-> s[Len(s) + 1 - k]]

(* --------------------------- file contents ---------------------------- *)

MarkerUp   == [kind |-> "marker", text |-> "-- +migrator UP",   file |-> <<>>]
MarkerDown == [kind |-> "marker", text |-> "-- +migrator DOWN", file |-> <<>>]
SqlText(t, file) == [kind |-> "sql", text |-> t, file |-> file]

\* What readFileSync returns for a script: the shape generateMigration writes,
\* with the author's statements in the two bodies.
ReadFile(file) ==
  <<MarkerUp, SqlText("up", file), MarkerDown, SqlText("down", file)>>

\* String.prototype.split(marker): the pieces between the marker's occurrences.
RECURSIVE SplitAt(_, _, _, _)
SplitAt(content, marker, cur, acc) ==
  IF content = <<>> THEN Append(acc, cur)
  ELSE IF Head(content) = marker
       THEN SplitAt(Tail(content), marker, <<>>, Append(acc, cur))
       ELSE SplitAt(Tail(content), marker, Append(cur, Head(content)), acc)

Split(content, marker) == SplitAt(content, marker, <<>>, <<>>)

\* pieces[k] || '' (k counted from 0)
PieceOr(pieces, k) == IF k + 1 <= Len(pieces) THEN pieces[k + 1] ELSE <<>>

\* An extraction that forgets the second split.
ExtractUp_Whole(content) == PieceOr(Split(content, MarkerUp), 1)

\* split('-- +migrator UP')[1] || '' then split('-- +migrator DOWN')[0] || ''
ExtractUp(content) ==
  PieceOr(Split(PieceOr(Split(content, MarkerUp), 1), MarkerDown), 0)

\* split('-- +migrator DOWN')[1] || '' then split('-- +migrator UP')[0] || ''
ExtractDown(content) ==
  PieceOr(Split(PieceOr(Split(content, MarkerDown), 1), MarkerUp), 0)

\* migrateReset: the same two splits, written again in its loop
ResetExtractDown(content) ==
  PieceOr(Split(PieceOr(Split(content, MarkerDown), 1), MarkerUp), 0)

(* ------------------------------- state -------------------------------- *)

Kinds == {"migration", "seed"}

\* What --type, --action and --name are given on the command line.
TypeArgs   == Kinds \cup {"other"}
ActionArgs == {"up", "down", "reset", "new", "other"}
NameArgs   == {"", "a"}

\* The script files somebody may put into, or take out of, a kind's directory.
\* Migrations: two versions, a second file of version 1, a name without
\* underscore, and a file that is no .sql file.
ScriptFiles(kind) ==
  IF kind = "migration"
  THEN { <<"1", "_", "a", ".sql">>, <<"2", "_", "a", ".sql">>,
         <<"1", "_", "b", ".sql">>, <<"3", ".sql">>, <<"3", "_", "a", ".txt">> }
  ELSE { <<"1", "_", "a", ".sql">> }

VARIABLES
  dirExists,    \* [kind -> BOOLEAN]: db/<driver>/<kind> exists
  dir,          \* [kind -> set of file names]: what readdirSync returns
  tableExists,  \* [kind -> BOOLEAN]: node_migrator_<kind>s exists
  rows,         \* [kind -> sequence of [version, createdAt]]: its rows
  clock,        \* the wall clock of new Date(), in seconds
  pc,           \* where the running process is; "idle" when none runs
  action, type, name,   \* getArg("action"), getArg("type"), getArg("name")
  files,        \* migrateUp's files, migrateReset's scripts
  i,            \* the position of the for loop in files
  version,      \* migrateDown's version
  file,         \* migrateDown's file
  exitCode,     \* the code of the process.exit that ended the process
  rows0,        \* history: rows when the process started
  tables0,      \* history: tableExists when the process started
  log,          \* history: the script SQL the database has executed, in order
  failStep,     \* history: the step whose query failed, "none" when none did
  walk,         \* history: the run of migration Downs that is under way:
                \* the rows it started from and the versions it has reverted
  news,         \* history: the run of News that is under way: the file and
                \* the second of its last two successful ones, the later last
  content       \* the file content whose bodies are extracted

store == <<dirExists, dir, tableExists, rows, clock, content>>
args  == <<action, type, name>>
local == <<files, i, version, file>>
hist  == <<rows0, tables0, log, failStep, walk, news>>
vars  == <<store, pc, args, local, exitCode, hist>>

Row(v, t) == [version |-> v, createdAt |-> t]

\* res.rows.map((row) => row.version)
Versions(rs) == {rs[k].version : k \in 1..Len(rs)}

Init ==
  /\ dirExists = [k \in Kinds |-> FALSE]
  /\ dir = [k \in Kinds |-> {}]
  /\ tableExists = [k \in Kinds |-> FALSE]
  /\ rows = [k \in Kinds |-> <<>>]
  /\ clock = 1
  /\ pc = "idle"
  /\ action = "" /\ type = "" /\ name = ""
  /\ files = <<>> /\ i = 0 /\ version = <<>> /\ file = <<>>
  /\ exitCode = 0
  /\ rows0 = rows /\ tables0 = tableExists /\ log = <<>> /\ failStep = "none"
  /\ walk = [from |-> <<>>, undone |-> <<>>]
  /\ news = <<>>
  /\ content = <<>>

(* --------------------------- the environment -------------------------- *)

\* Somebody puts a script file into a kind's directory.
AddFile(kind, f) ==
  /\ pc = "idle"
  /\ f \notin dir[kind]
  /\ dir' = [dir EXCEPT ![kind] = @ \cup {f}]
  /\ dirExists' = [dirExists EXCEPT ![kind] = TRUE]
  /\ walk' = [from |-> rows["migration"], undone |-> <<>>]
  /\ UNCHANGED news
  /\ UNCHANGED <<tableExists, rows, clock, content, pc, args, local, exitCode,
                 rows0, tables0, log, failStep>>

\* Somebody removes a script file.
RemoveFile(kind, f) ==
  /\ pc = "idle"
  /\ f \in dir[kind]
  /\ dir' = [dir EXCEPT ![kind] = @ \ {f}]
  /\ walk' = [from |-> rows["migration"], undone |-> <<>>]
  /\ UNCHANGED news
  /\ UNCHANGED <<dirExists, tableExists, rows, clock, content, pc, args,
                 local, exitCode, rows0, tables0, log, failStep>>

\* A second passes.
Tick ==
  /\ pc = "idle"
  /\ clock < MaxClock
  /\ clock' = clock + 1
  /\ UNCHANGED <<dirExists, dir, tableExists, rows, content, pc, args, local,
                 exitCode, hist>>

(* ------------------------------ the ledger ---------------------------- *)

\* CREATE TABLE IF NOT EXISTS node_migrator_<kind>s
CreateTable(exists, kind) == [exists EXCEPT ![kind] = TRUE]

\* created_at DEFAULT NOW(): the database's clock at the insert, later than at
\* every earlier insert.  Rows are only ever compared by created_at within one
\* table, so the model numbers a table's rows: one more than the latest.
Now(rs) ==
  IF rs = <<>> THEN 1
  ELSE 1 + (CHOOSE t \in {rs[k].createdAt : k \in 1..Len(rs)} :
              \A k \in 1..Len(rs) : rs[k].createdAt <= t)

\* A DROP that leaves the table.
DropTable_Kept(exists, kind) == exists

\* DROP TABLE IF EXISTS node_migrator_<kind>s: the table and its rows are gone.
DropTable(exists, kind) == [exists EXCEPT ![kind] = FALSE]
DropRows(rs, kind) == [rs EXCEPT ![kind] = <<>>]

\* INSERT INTO node_migrator_<kind>s (version) VALUES ($1)
InsertRow(rs, v) == Append(rs, Row(v, Now(rs)))

\* A DELETE that forgets its WHERE.
DeleteVersion_All(rs, v) == <<>>

\* DELETE FROM node_migrator_<kind>s WHERE version = $1
DeleteVersion(rs, v) == SelectSeq(rs, LAMBDA r : r.version # v)

\* ORDER BY created_at ASC.
MostRecentRows_Oldest(rs) ==
  {rs[k] : k \in {n \in 1..Len(rs) :
                    \A m \in 1..Len(rs) : rs[n].createdAt <= rs[m].createdAt}}

\* SELECT version ... ORDER BY created_at DESC LIMIT 1: the rows it may return
\* (one row, unless two rows share the greatest created_at).
MostRecentRows(rs) ==
  {rs[k] : k \in {n \in 1..Len(rs) :
                    \A m \in 1..Len(rs) : rs[m].createdAt <= rs[n].createdAt}}

(* --------------------------- the file filters ------------------------- *)

\* A filter that forgets the extension.
UpFiles_AnyExtension(d, rs) ==
  SortFiles({f \in d : ~(SplitVersion(f) \in Versions(rs))})

\* A filter that forgets the applied versions.
UpFiles_AllSql(d, rs) == SortFiles({f \in d : EndsWithSql(f)})

\* migrateUp: the files whose version is not applied and that end in .sql, sorted
UpFiles(d, rs) ==
  SortFiles({f \in d : ~(SplitVersion(f) \in Versions(rs)) /\ EndsWithSql(f)})

\* A search that falls back to any script when the version has none.
DownFiles_Fallback(d, v) ==
  LET own == {f \in d : StartsWith(f, v \o <<"_">>) /\ EndsWithSql(f)}
  IN  IF own # {} THEN own ELSE {f \in d : EndsWithSql(f)}

\* migrateDown: the files find() may return for a version
DownFiles(d, v) ==
  {f \in d : StartsWith(f, v \o <<"_">>) /\ EndsWithSql(f)}

\* migrateReset: the files whose version is applied and that end in .sql,
\* sorted and reversed; the loop that fills scripts keeps each of them.
ResetFiles(d, rs) ==
  LET sorted == Reverse(SortFiles({f \in d : SplitVersion(f) \in Versions(rs)
                                               /\ EndsWithSql(f)}))
  IN  SelectSeq(sorted, LAMBDA f : \E k \in 1..Len(sorted) : sorted[k] = f)

\* migrateReset: scripts.length !== res.rowCount
ResetMismatch(scripts, rs) == Len(scripts) # Len(rs)

\* A migrateDown that refuses nothing.
DownRefused_Never(t) == FALSE

\* migrateDown refuses a kind before it touches the database.
DownRefused(t) == t = "seed"

\* The table migrateReset drops after it has deleted the migration rows.
ResetDropTarget == "seed"

\* new Date().toISOString() with all but the digits removed: a fixed-width
\* string of digits (one digit, for the seconds of this model).
Digits == <<"0", "1", "2", "3", "4", "5">>

\* A timestamp that does not move with the clock.
Timestamp_Frozen(t) == <<Digits[1]>>

Timestamp(t) == <<Digits[t + 1]>>

(* ----------------------------- runMigrations -------------------------- *)

\* process.exit(code)
Exit(code) == pc' = "exit" /\ exitCode' = code

\* A query that the database fails: the error is caught and the process
\* exits with 1.
Fail(step) == failStep' = step /\ Exit(1)

\* type !== 'migration' && type !== 'seed' is the invalid type.
ValidType_Any(t) == TRUE

ValidType(t) == t \in Kinds

\* name.length < 1
NameMissing_Never(n) == FALSE

NameMissing(n) == n = ""

\* The process starts, reads its arguments and validates them.
Invoke(a, t, n) ==
  /\ pc = "idle"
  /\ a # "new" => n = ""
  /\ action' = a /\ type' = t /\ name' = n
  /\ rows0' = rows /\ tables0' = tableExists /\ log' = <<>>
  /\ failStep' = "none"
  /\ UNCHANGED walk
  /\ news' = IF a = "new" THEN news ELSE <<>>
  /\ IF ~ValidType(t) THEN Exit(1)
     ELSE IF a = "new" /\ t = "seed" /\ NameMissing(n) THEN Exit(1)
     ELSE /\ pc' = IF a # "new" THEN "ensure" ELSE "dispatch"
          /\ exitCode' = 0
  /\ UNCHANGED <<store, local>>

\* CREATE TABLE IF NOT EXISTS for the kind's ledger.
EnsureTable(ok) ==
  /\ pc = "ensure"
  /\ IF ok
     THEN /\ tableExists' = CreateTable(tableExists, type)
          /\ pc' = "dispatch"
          /\ UNCHANGED <<exitCode, failStep>>
     ELSE /\ Fail("ensure")
          /\ UNCHANGED tableExists
  /\ UNCHANGED <<dirExists, dir, rows, clock, content, args, local, rows0,
                 tables0, walk, news, log>>

\* An action that is none of up, down, reset, new.
InvalidAction ==
  /\ pc = "dispatch" /\ action \notin {"up", "down", "reset", "new"}
  /\ Exit(1)
  /\ UNCHANGED <<store, args, local, hist>>

\* The process is gone; the next one may start.
Terminate ==
  /\ pc = "exit"
  /\ pc' = "idle"
  /\ action' = "" /\ type' = "" /\ name' = ""
  /\ files' = <<>> /\ i' = 0 /\ version' = <<>> /\ file' = <<>>
  /\ exitCode' = 0
  /\ rows0' = [k \in Kinds |-> <<>>] /\ tables0' = [k \in Kinds |-> FALSE]
  /\ log' = <<>> /\ failStep' = "none"
  /\ walk' = IF action = "down" /\ type = "migration" /\ failStep = "none"
             THEN [walk EXCEPT !.undone =
                     IF exitCode = 0 THEN Append(@, version) ELSE @]
             ELSE [from |-> rows["migration"], undone |-> <<>>]
  /\ UNCHANGED <<store, news>>

(* ------------------------------- migrateUp ---------------------------- *)

\* The SELECT of the applied versions and the directory listing.
UpSelect(ok) ==
  /\ pc = "dispatch" /\ action = "up"
  /\ IF ~ok THEN Fail("up_select") /\ UNCHANGED <<files, i>>
     ELSE IF ~dirExists[type]
     THEN Exit(1) /\ UNCHANGED <<files, i, failStep>>
     ELSE /\ files' = UpFiles(dir[type], rows[type])
          /\ i' = 1
          /\ pc' = "up_loop"
          /\ UNCHANGED <<exitCode, failStep>>
  /\ UNCHANGED <<store, args, version, file, rows0, tables0, walk, news, log>>

\* The loop's next file: its UP body is executed.
UpExec(ok) ==
  /\ pc = "up_loop" /\ i <= Len(files)
  /\ IF ok
     THEN /\ log' = Append(log, ExtractUp(ReadFile(files[i])))
          /\ pc' = "up_insert"
          /\ UNCHANGED <<exitCode, failStep>>
     ELSE Fail("up_exec") /\ UNCHANGED log
  /\ UNCHANGED <<store, args, local, rows0, tables0, walk, news>>

\* The file's version is recorded.
UpInsert(ok) ==
  /\ pc = "up_insert"
  /\ IF ok
     THEN /\ rows' = [rows EXCEPT ![type] =
                        InsertRow(@, SplitVersion(files[i]))]
          /\ i' = i + 1
          /\ pc' = "up_loop"
          /\ UNCHANGED <<exitCode, failStep>>
     ELSE Fail("up_insert") /\ UNCHANGED <<rows, i>>
  /\ UNCHANGED <<dirExists, dir, tableExists, clock, content, args, files,
                 version, file, rows0, tables0, walk, news, log>>

\* The loop is over: migrateUp returns and the process exits with 0.
UpDone ==
  /\ pc = "up_loop" /\ i > Len(files)
  /\ Exit(0)
  /\ UNCHANGED <<store, args, local, hist>>

(* ------------------------------ migrateDown --------------------------- *)

\* Seeds are not reverted: the error is thrown outside migrateDown's try and
\* caught by runMigrations.
DownSeed ==
  /\ pc = "dispatch" /\ action = "down" /\ DownRefused(type)
  /\ Exit(1)
  /\ UNCHANGED <<store, args, local, hist>>

\* The SELECT of the most recent version and the search for its file.
DownSelect(ok) ==
  /\ pc = "dispatch" /\ action = "down" /\ ~DownRefused(type)
  /\ IF ~ok THEN Fail("down_select") /\ UNCHANGED <<version, file>>
     ELSE IF rows[type] = <<>>
     THEN Exit(1) /\ UNCHANGED <<version, file, failStep>>
     ELSE \E r \in MostRecentRows(rows[type]) :
            /\ version' = r.version
            /\ UNCHANGED failStep
            /\ IF ~dirExists[type] \/ DownFiles(dir[type], r.version) = {}
               THEN Exit(1) /\ UNCHANGED file
               ELSE /\ \E f \in DownFiles(dir[type], r.version) : file' = f
                    /\ pc' = "down_exec"
                    /\ UNCHANGED exitCode
  /\ UNCHANGED <<store, args, files, i, rows0, tables0, walk, news, log>>

\* The file's DOWN body is executed.
DownExec(ok) ==
  /\ pc = "down_exec"
  /\ IF ok
     THEN /\ log' = Append(log, ExtractDown(ReadFile(file)))
          /\ pc' = "down_delete"
          /\ UNCHANGED <<exitCode, failStep>>
     ELSE Fail("down_exec") /\ UNCHANGED log
  /\ UNCHANGED <<store, args, local, rows0, tables0, walk, news>>

\* The version's rows are deleted; migrateDown returns.
DownDelete(ok) ==
  /\ pc = "down_delete"
  /\ IF ok
     THEN /\ rows' = [rows EXCEPT ![type] = DeleteVersion(@, version)]
          /\ Exit(0)
          /\ UNCHANGED failStep
     ELSE Fail("down_delete") /\ UNCHANGED rows
  /\ UNCHANGED <<dirExists, dir, tableExists, clock, content, args, local,
                 rows0, tables0, walk, news, log>>

(* ------------------------------ migrateReset -------------------------- *)

\* Reset of seeds: DROP TABLE IF EXISTS node_migrator_seeds.
ResetSeed(ok) ==
  /\ pc = "dispatch" /\ action = "reset" /\ type = "seed"
  /\ IF ok
     THEN /\ tableExists' = DropTable(tableExists, "seed")
          /\ rows' = DropRows(rows, "seed")
          /\ Exit(0)
          /\ UNCHANGED failStep
     ELSE Fail("reset_seed") /\ UNCHANGED <<tableExists, rows>>
  /\ UNCHANGED <<dirExists, dir, clock, content, args, local, rows0, tables0,
                 walk, news, log>>

\* The SELECT of the applied versions, the directory listing and the check
\* of the number of scripts against the number of rows.
ResetSelect(ok) ==
  /\ pc = "dispatch" /\ action = "reset" /\ type # "seed"
  /\ IF ~ok THEN Fail("reset_select") /\ UNCHANGED <<files, i>>
     ELSE IF ~dirExists[type]
     THEN Exit(1) /\ UNCHANGED <<files, i, failStep>>
     ELSE /\ files' = ResetFiles(dir[type], rows[type])
          /\ UNCHANGED failStep
          /\ IF ResetMismatch(files', rows[type])
             THEN Exit(1) /\ UNCHANGED i
             ELSE i' = 1 /\ pc' = "reset_loop" /\ UNCHANGED exitCode
  /\ UNCHANGED <<store, args, version, file, rows0, tables0, walk, news, log>>

\* The loop's next script: its DOWN body is executed.
ResetExec(ok) ==
  /\ pc = "reset_loop" /\ i <= Len(files)
  /\ IF ok
     THEN /\ log' = Append(log, ResetExtractDown(ReadFile(files[i])))
          /\ i' = i + 1
          /\ UNCHANGED <<pc, exitCode, failStep>>
     ELSE Fail("reset_exec") /\ UNCHANGED <<log, i>>
  /\ UNCHANGED <<store, args, files, version, file, rows0, tables0, walk,
                 news>>

\* The loop is over: DELETE FROM node_migrator_<kind>s.
ResetDelete(ok) ==
  /\ pc = "reset_loop" /\ i > Len(files)
  /\ IF ok
     THEN /\ rows' = [rows EXCEPT ![type] = <<>>]
          /\ pc' = "reset_drop"
          /\ UNCHANGED <<exitCode, failStep>>
     ELSE Fail("reset_delete") /\ UNCHANGED rows
  /\ UNCHANGED <<dirExists, dir, tableExists, clock, content, args, local,
                 rows0, tables0, walk, news, log>>

\* The DROP TABLE IF EXISTS that ends the reset of migrations.
ResetDrop(ok) ==
  /\ pc = "reset_drop"
  /\ IF ok
     THEN /\ tableExists' = DropTable(tableExists, ResetDropTarget)
          /\ rows' = DropRows(rows, ResetDropTarget)
          /\ Exit(0)
          /\ UNCHANGED failStep
     ELSE Fail("reset_drop") /\ UNCHANGED <<tableExists, rows>>
  /\ UNCHANGED <<dirExists, dir, clock, content, args, local, rows0, tables0,
                 walk, news, log>>

(* ---------------------------- generateMigration ----------------------- *)

\* The new script's name: `${timestamp}_${name}.sql`
NewFile(t, n) == Timestamp(t) \o <<"_", n, ".sql">>

\* The last two of a run.
LastTwo(s) == IF Len(s) <= 2 THEN s ELSE SubSeq(s, Len(s) - 1, Len(s))

\* An empty name throws; otherwise the directory is made if it is missing and
\* the template is written.
GenerateMigration ==
  /\ pc = "dispatch" /\ action = "new"
  /\ IF NameMissing(name)
     THEN Exit(1) /\ UNCHANGED <<dirExists, dir, news>>
     ELSE /\ dirExists' = [dirExists EXCEPT ![type] = TRUE]
          /\ dir' = [dir EXCEPT ![type] = @ \cup {NewFile(clock, name)}]
          /\ news' = LastTwo(Append(news, [file |-> NewFile(clock, name),
                                           at |-> clock]))
          /\ Exit(0)
  /\ UNCHANGED <<tableExists, rows, clock, content, args, local, rows0,
                 tables0, log, failStep, walk>>

(* ------------------------------ specification ------------------------- *)

Next ==
  \/ \E k \in Kinds : \E f \in ScriptFiles(k) : AddFile(k, f)
  \/ \E k \in Kinds : \E f \in dir[k] : RemoveFile(k, f)
  \/ \E a \in ActionArgs, t \in TypeArgs, n \in NameArgs : Invoke(a, t, n)
  \/ \E ok \in BOOLEAN : EnsureTable(ok)
  \/ InvalidAction
  \/ \E ok \in BOOLEAN : UpSelect(ok)
  \/ \E ok \in BOOLEAN : UpExec(ok)
  \/ \E ok \in BOOLEAN : UpInsert(ok)
  \/ UpDone
  \/ DownSeed
  \/ \E ok \in BOOLEAN : DownSelect(ok)
  \/ \E ok \in BOOLEAN : DownExec(ok)
  \/ \E ok \in BOOLEAN : DownDelete(ok)
  \/ \E ok \in BOOLEAN : ResetSeed(ok)
  \/ \E ok \in BOOLEAN : ResetSelect(ok)
  \/ \E ok \in BOOLEAN : ResetExec(ok)
  \/ \E ok \in BOOLEAN : ResetDelete(ok)
  \/ \E ok \in BOOLEAN : ResetDrop(ok)
  \/ GenerateMigration
  \/ Terminate

Spec == Init /\ [][Next]_vars

\* Only generateMigration reads the wall clock: the specification of the
\* generator alone lets it advance.
NextNew ==
  \/ Tick
  \/ \E t \in TypeArgs, n \in NameArgs : Invoke("new", t, n)
  \/ GenerateMigration
  \/ Terminate

SpecNew == Init /\ [][NextNew]_vars

(* ---------------------- the extraction of the bodies ------------------ *)

\* The file contents of up to MaxItems items: each item is a marker or a
\* piece of text, the piece of place k being the text Texts[k].
Texts == <<"s1", "s2", "s3", "s4", "s5", "s6">>
ItemOf(what, k) ==
  IF what = "up" THEN MarkerUp
  ELSE IF what = "down" THEN MarkerDown
  ELSE SqlText(Texts[k], <<>>)
Contents ==
  UNION {{[k \in 1..n |-> ItemOf(shape[k], k)] :
            shape \in [1..n -> {"up", "down", "text"}]} : n \in 0..MaxItems}

\* readFileSync has returned some content.
InitExtract ==
  /\ content \in Contents
  /\ pc = "read"
  /\ dirExists = [k \in Kinds |-> FALSE]
  /\ dir = [k \in Kinds |-> {}]
  /\ tableExists = [k \in Kinds |-> FALSE]
  /\ rows = [k \in Kinds |-> <<>>]
  /\ clock = 1
  /\ action = "" /\ type = "" /\ name = ""
  /\ files = <<>> /\ i = 0 /\ version = <<>> /\ file = <<>>
  /\ exitCode = 0
  /\ rows0 = rows /\ tables0 = tableExists /\ log = <<>> /\ failStep = "none"
  /\ walk = [from |-> <<>>, undone |-> <<>>]
  /\ news = <<>>

\* The body one of the three loops extracts from the content is executed.
Extracted(from, to, body) ==
  /\ pc = from
  /\ log' = Append(log, body)
  /\ pc' = to
  /\ UNCHANGED <<store, args, local, exitCode, rows0, tables0, failStep, walk,
                 news>>

\* migrateUp's sql, migrateDown's sql, migrateReset's sql of the content
UpBody == Extracted("read", "up_read", ExtractUp(content))
DownBody == Extracted("up_read", "down_read", ExtractDown(content))
ResetBody == Extracted("down_read", "parsed", ResetExtractDown(content))

NextExtract == UpBody \/ DownBody \/ ResetBody

SpecExtract == InitExtract /\ [][NextExtract]_vars

(* ------------------------- the claims' vocabulary --------------------- *)

\* The process of action a and kind t has called process.exit.
Exited(a, t) == pc = "exit" /\ action = a /\ type = t

\* Every query of the process has succeeded.
AllOk == failStep = "none"

\* The .sql files of a directory.
SqlFiles(d) == {f \in d : f[Len(f)] = ".sql"}

\* A file's version prefix: its name up to the first underscore.
VersionOf(f) ==
  LET us == {k \in 1..Len(f) : f[k] = "_"}
  IN  IF us = {} THEN f
      ELSE SubSeq(f, 1, (CHOOSE k \in us : \A m \in us : k <= m) - 1)

\* versions(S)
VersionsOf(d) == {VersionOf(f) : f \in SqlFiles(d)}

\* The applied-version set of a ledger.
Applied(rs) == {rs[k].version : k \in DOMAIN rs}

\* One .sql file per version prefix.
OnePerVersion(d) ==
  \A f, g \in SqlFiles(d) : VersionOf(f) = VersionOf(g) => f = g

\* The .sql files that were pending when the process started.
Pending(t) == {f \in SqlFiles(dir[t]) : VersionOf(f) \notin Applied(rows0[t])}

\* The n-th file of a set in ascending order of the names.
Nth(S, n) == CHOOSE f \in S : Cardinality({g \in S : StrLess(g, f)}) = n - 1

\* The most recently applied version: that of the row of greatest createdAt.
LatestVersion(rs) ==
  (CHOOSE r \in {rs[k] : k \in DOMAIN rs} :
     \A k \in DOMAIN rs : rs[k].createdAt <= r.createdAt).version

\* A ledger without the rows of a version.
Without(rs, v) == SelectSeq(rs, LAMBDA r : r.version # v)

\* The applied versions, the most recently applied first.
RECURSIVE Unwind(_)
Unwind(rs) ==
  IF rs = <<>> THEN <<>>
  ELSE <<LatestVersion(rs)>> \o Unwind(Without(rs, LatestVersion(rs)))

\* The .sql files whose name starts with the version and an underscore.
ScriptsOf(d, v) ==
  {f \in SqlFiles(d) : Len(f) > Len(v) /\ SubSeq(f, 1, Len(v) + 1) = v \o <<"_">>}

UpBodyOf(f) == ExtractUp(ReadFile(f))
DownBodyOf(f) == ExtractDown(ReadFile(f))

(* -------------------------------- claims ------------------------------ *)

\* C1: an Up whose queries all succeed, on a directory with one .sql file per
\* version prefix and a ledger whose applied versions are versions of the
\* directory, exits with 0 and leaves exactly versions(S) applied: the rows
\* that were there stay, one row is added per pending version, and a file
\* that does not end in .sql adds none.
C1_UpAppliesAll ==
  \A t \in Kinds :
    ( /\ Exited("up", t) /\ AllOk /\ dirExists[t]
      /\ OnePerVersion(dir[t])
      /\ Applied(rows0[t]) \subseteq VersionsOf(dir[t]) )
    => /\ exitCode = 0
       /\ Applied(rows[t]) = VersionsOf(dir[t])
       /\ Len(rows[t]) >= Len(rows0[t])
       /\ SubSeq(rows[t], 1, Len(rows0[t])) = rows0[t]
       /\ Len(rows[t]) = Len(rows0[t]) + Cardinality(Pending(t))

\* C1's case: an Up has recorded the pending versions of a directory that
\* also holds an applied version and a file that is no .sql file.
C1_Witness ==
  /\ Exited("up", "migration") /\ AllOk /\ exitCode = 0
  /\ OnePerVersion(dir["migration"])
  /\ rows0["migration"] # <<>>
  /\ Applied(rows0["migration"]) \subseteq VersionsOf(dir["migration"])
  /\ Len(rows["migration"]) >= Len(rows0["migration"]) + 2
  /\ dir["migration"] # SqlFiles(dir["migration"])

\* C2: an Up on a store whose .sql files are all applied executes no UP body
\* and leaves the rows of the ledger as they were, and exits with 0 when its
\* queries succeed; and a successful Up leaves such a store, so that a second
\* Up changes nothing.
C2_UpIdempotent ==
  \A t \in Kinds :
    /\ (Exited("up", t) /\ VersionsOf(dir[t]) \subseteq Applied(rows0[t]))
         => /\ log = <<>>
            /\ rows = rows0
            /\ (AllOk /\ dirExists[t]) => exitCode = 0
    /\ (Exited("up", t) /\ AllOk /\ dirExists[t])
         => VersionsOf(dir[t]) \subseteq Applied(rows[t])

\* C2's case: an Up has ended on a store with two applied versions and
\* nothing pending.
C2_Witness ==
  /\ Exited("up", "migration") /\ AllOk /\ exitCode = 0
  /\ Len(rows0["migration"]) >= 2
  /\ VersionsOf(dir["migration"]) = Applied(rows0["migration"])

\* C3 as amended: the Up whose N-th pending file's UP body fails exits with 1;
\* it has executed the UP bodies of the first N-1 pending files, in ascending
\* order of the names, and has added one row for each of them, in that
\* order, and no row for the N-th file or a later one.
C3_UpFailFast ==
  \A t \in Kinds :
    (Exited("up", t) /\ failStep = "up_exec")
    => /\ exitCode = 1
       /\ i \in 1..Cardinality(Pending(t))
       /\ Len(log) = i - 1
       /\ \A j \in 1..(i - 1) : log[j] = UpBodyOf(Nth(Pending(t), j))
       /\ Len(rows[t]) = Len(rows0[t]) + i - 1
       /\ SubSeq(rows[t], 1, Len(rows0[t])) = rows0[t]
       /\ \A j \in 1..(i - 1) :
            /\ rows[t][Len(rows0[t]) + j].version = VersionOf(Nth(Pending(t), j))
            /\ \A k \in 1..(Len(rows0[t]) + j - 1) :
                 rows[t][k].createdAt < rows[t][Len(rows0[t]) + j].createdAt

\* C3 as stated: in addition, the version of the N-th pending file is not in
\* the ledger.
C3_NthVersionNotRecorded ==
  \A t \in Kinds :
    (Exited("up", t) /\ failStep = "up_exec")
    => /\ C3_UpFailFast
       /\ VersionOf(Nth(Pending(t), i)) \notin Applied(rows[t])

\* C3's case: the second of at least three pending files has failed, with a
\* version applied before.
C3_Witness ==
  /\ Exited("up", "migration") /\ failStep = "up_exec"
  /\ i = 2
  /\ Cardinality(Pending("migration")) >= 3
  /\ rows0["migration"] # <<>>

\* C4: a successful Down of migrations executes one DOWN body, that of a
\* script of the most recently applied version, and removes the rows of that
\* version and no other row, which leaves applied the versions that were
\* applied before it; the Down succeeds whenever that version has a script and
\* the queries succeed; and no Down, successful or not, executes more than
\* one body or removes more than one version.
C4_DownRevertsLatest ==
  LET r0 == rows0["migration"]
      r1 == rows["migration"]
      d  == dir["migration"]
  IN  /\ (Exited("down", "migration") /\ exitCode = 0)
           => /\ r0 # <<>>
              /\ Len(log) = 1
              /\ \E f \in ScriptsOf(d, LatestVersion(r0)) : log[1] = DownBodyOf(f)
              /\ r1 = Without(r0, LatestVersion(r0))
              /\ Applied(r1) =
                   {r0[k].version : k \in
                      {n \in DOMAIN r0 :
                         \A m \in DOMAIN r0 :
                           r0[m].version = LatestVersion(r0)
                             => r0[n].createdAt < r0[m].createdAt}}
      /\ ( /\ Exited("down", "migration") /\ AllOk /\ r0 # <<>>
           /\ ScriptsOf(d, LatestVersion(r0)) # {} )
           => exitCode = 0
      /\ (action = "down" /\ type = "migration")
           => /\ Len(log) <= 1
              /\ Cardinality(Applied(r0) \ Applied(r1)) <= 1

\* C4's case: a Down has succeeded on a ledger of two versions whose most
\* recently applied version is not the greatest one.
C4_Witness ==
  /\ Exited("down", "migration") /\ exitCode = 0
  /\ Cardinality(Applied(rows0["migration"])) >= 2
  /\ \E v \in Applied(rows0["migration"]) :
       StrLess(LatestVersion(rows0["migration"]), v)

\* C5: in a run of Downs of migrations whose queries succeed, started from a
\* ledger of k applied versions that all have scripts, the n-th Down (n <= k)
\* succeeds and reverts the n-th most recently applied version, the k-th
\* leaves the ledger empty, and every later Down exits with 1, executes
\* nothing and leaves the ledger empty; so does any Down on an empty ledger.
C5_RepeatedDown ==
  LET order == Unwind(walk.from)
      n == Len(walk.undone)
      k == Len(order)
      r0 == rows0["migration"]
      r1 == rows["migration"]
  IN  /\ ( /\ Exited("down", "migration") /\ AllOk
           /\ \A v \in Applied(walk.from) : ScriptsOf(dir["migration"], v) # {} )
           => IF n < k
              THEN /\ exitCode = 0
                   /\ Len(log) = 1
                   /\ \E f \in ScriptsOf(dir["migration"], order[n + 1]) :
                        log[1] = DownBodyOf(f)
                   /\ Applied(r0) = {order[j] : j \in (n + 1)..k}
                   /\ Applied(r1) = {order[j] : j \in (n + 2)..k}
                   /\ (n + 1 = k) => r1 = <<>>
              ELSE /\ exitCode = 1
                   /\ log = <<>>
                   /\ r1 = <<>>
      /\ (Exited("down", "migration") /\ r0 = <<>>)
           => exitCode = 1 /\ log = <<>> /\ r1 = <<>>

\* C5's case: the third Down of a run that started from two applied versions
\* has failed on the ledger the first two have emptied.
C5_Witness ==
  /\ Exited("down", "migration") /\ AllOk /\ exitCode = 1
  /\ Len(Unwind(walk.from)) = 2
  /\ Len(walk.undone) = 2
  /\ \A v \in Applied(walk.from) : ScriptsOf(dir["migration"], v) # {}

\* C6: a Down of migrations whose most recently applied version has no .sql
\* file starting with the version and an underscore exits with 1, executes
\* nothing and leaves every row of the ledger.
C6_DownMissingScript ==
  ( /\ Exited("down", "migration")
    /\ rows0["migration"] # <<>>
    /\ ScriptsOf(dir["migration"], LatestVersion(rows0["migration"])) = {} )
  => /\ exitCode = 1
     /\ log = <<>>
     /\ rows = rows0

\* C6's case: the most recently applied version has no script while an older
\* applied version has one.
C6_Witness ==
  /\ Exited("down", "migration") /\ AllOk
  /\ rows0["migration"] # <<>>
  /\ ScriptsOf(dir["migration"], LatestVersion(rows0["migration"])) = {}
  /\ \E v \in Applied(rows0["migration"]) : ScriptsOf(dir["migration"], v) # {}

\* Every applied version has a .sql file of that version.
Covered(rs, d) == Applied(rs) \subseteq VersionsOf(d)

\* C7: a Reset of migrations whose queries succeed, on a ledger whose applied
\* versions all have a script, exits with 0 and leaves no row in the ledger
\* and no ledger table node_migrator_migrations.
C7_ResetDropsLedger ==
  ( /\ Exited("reset", "migration") /\ AllOk /\ dirExists["migration"]
    /\ Covered(rows0["migration"], dir["migration"]) )
  => /\ exitCode = 0
     /\ rows["migration"] = <<>>
     /\ ~tableExists["migration"]

\* C7's case: a Reset of two applied versions, each with its one script, has
\* ended without a failing query.
C7_Witness ==
  /\ Exited("reset", "migration") /\ AllOk /\ exitCode = 0
  /\ Covered(rows0["migration"], dir["migration"])
  /\ OnePerVersion(dir["migration"])
  /\ Len(rows0["migration"]) = 2
  /\ Len(log) = 2

\* C8: a Reset of migrations with an applied version that has no .sql file
\* of that version exits with 1, has executed no DOWN body and leaves the
\* rows of the ledger as they were.
C8_ResetMissingScript ==
  ( /\ Exited("reset", "migration")
    /\ ~Covered(rows0["migration"], dir["migration"]) )
  => /\ exitCode = 1
     /\ log = <<>>
     /\ rows = rows0

\* C8's case: a Reset has ended on a ledger of two applied versions of which
\* one has no script.
C8_Witness ==
  /\ Exited("reset", "migration") /\ AllOk
  /\ Cardinality(Applied(rows0["migration"])) = 2
  /\ Cardinality(Applied(rows0["migration"]) \ VersionsOf(dir["migration"])) = 1

\* C9: a Down of seeds exits with 1 whatever the seed ledger and the seed
\* directory are; it never reaches the search for a script, executes nothing
\* and leaves the rows of the seed ledger.
C9_SeedDownFails ==
  (action = "down" /\ type = "seed")
  => /\ pc \in {"ensure", "dispatch", "exit"}
     /\ pc = "exit" => exitCode = 1
     /\ log = <<>>
     /\ rows["seed"] = rows0["seed"]

\* C9's case: a Down of seeds has ended on a seed ledger with a row whose
\* script is in the directory.
C9_Witness ==
  /\ Exited("down", "seed") /\ AllOk
  /\ rows0["seed"] # <<>>
  /\ ScriptsOf(dir["seed"], LatestVersion(rows0["seed"])) # {}

\* C10: a Reset of seeds executes nothing and, when its queries succeed,
\* exits with 0 and leaves no seed ledger table, whether the table was there
\* or not and whatever the directory holds, so that every seed script is
\* pending: the Up of seeds that follows finds each .sql file to apply.
C10_SeedResetDrops ==
  /\ (action = "reset" /\ type = "seed")
       => /\ log = <<>>
          /\ (pc = "exit" /\ AllOk)
               => /\ exitCode = 0
                  /\ ~tableExists["seed"]
                  /\ rows["seed"] = <<>>
                  /\ {f \in SqlFiles(dir["seed"]) :
                        VersionOf(f) \notin Applied(rows["seed"])}
                       = SqlFiles(dir["seed"])
  /\ (action = "up" /\ type = "seed" /\ pc = "up_loop" /\ ~tables0["seed"])
       => {files[k] : k \in 1..Len(files)} = SqlFiles(dir["seed"])

\* C10's case: a Reset of seeds has dropped a seed ledger that recorded the
\* script of the directory.
C10_Witness ==
  /\ Exited("reset", "seed") /\ AllOk
  /\ rows0["seed"] # <<>>
  /\ Applied(rows0["seed"]) = VersionsOf(dir["seed"])

\* C11: a New without a name fails without side effects, for seeds as for
\* migrations: no step of the process creates a script file, the directory
\* or a ledger table, none executes SQL or opens the database (the process
\* is never at the CREATE TABLE), and its exit is an exit with 1.
C11_NewEmptyNameNoEffect ==
  [][(action' = "new" /\ name' = "" /\ type' \in Kinds)
       => /\ dir' = dir /\ dirExists' = dirExists
          /\ tableExists' = tableExists /\ rows' = rows
          /\ log' = <<>>
          /\ pc' \in {"dispatch", "exit"}
          /\ (pc' = "exit" => exitCode' = 1)
          /\ (pc = "dispatch" => pc' = "exit")]_vars

\* C11's case: a New of migrations without a name has ended.
C11_Witness ==
  Exited("new", "migration") /\ name = "" /\ exitCode = 1

ErrorCase ==
  \/ type \notin Kinds
  \/ action \notin {"up", "down", "reset", "new"}
  \/ action = "new" /\ name = ""
  \/ ~AllOk
  \/ /\ type \in Kinds
     /\ \/ action = "up" /\ ~dirExists[type]
        \/ action = "down" /\ type = "seed"
        \/ action = "down" /\ rows0[type] = <<>>
        \/ /\ action = "down" /\ rows0[type] # <<>>
           /\ \/ ~dirExists[type]
              \/ ScriptsOf(dir[type], LatestVersion(rows0[type])) = {}
        \/ /\ action = "reset" /\ type = "migration"
           /\ ~dirExists[type] \/ ~Covered(rows0[type], dir[type])

\* C13: a process ends with one exit code: with 1 in every error case, with
\* 0 when there is none.
C13_ExitCode ==
  pc = "exit" => /\ exitCode \in {0, 1}
                 /\ exitCode = 1 <=> ErrorCase

\* C13's case: a Reset of migrations whose ledger records a version without
\* a script has ended with 0.
C13_Witness ==
  /\ Exited("reset", "migration") /\ AllOk /\ dirExists["migration"]
  /\ ~Covered(rows0["migration"], dir["migration"])
  /\ exitCode = 0

\* C14: a process whose type is neither migration nor seed, or whose action
\* is new with type seed and no name, exits with 1 at its first step, and
\* that step creates no ledger table, changes no row, executes no SQL and
\* leaves every directory and every file as it was.
C14_ValidationFirst ==
  [][( /\ pc' # "idle"
       /\ \/ type' \notin Kinds
          \/ action' = "new" /\ type' = "seed" /\ name' = "" )
       => /\ pc = "idle" /\ pc' = "exit" /\ exitCode' = 1
          /\ tableExists' = tableExists /\ rows' = rows
          /\ dirExists' = dirExists /\ dir' = dir
          /\ log' = <<>>]_vars

\* C14's case: an Up of an invalid type has ended while migration scripts
\* are pending.
C14_Witness ==
  /\ Exited("up", "other") /\ exitCode = 1
  /\ SqlFiles(dir["migration"]) # {}
  /\ ~tableExists["migration"]

\* The .sql files whose version the ledger recorded when the process
\* started, and the j-th of them in descending order of the names.
Matched == {f \in SqlFiles(dir["migration"]) :
              VersionOf(f) \in Applied(rows0["migration"])}
MatchedDesc(j) == Nth(Matched, Cardinality(Matched) + 1 - j)

\* The file whose body is the j-th the database has executed.
LogFile(j) == log[j][1].file

\* C15, amended: a Reset of migrations executes the DOWN body of each .sql
\* file whose version is in the ledger, once each, one after another in
\* strictly descending order of the file names, and of no other file; the
\* ledger is as the process found it until the last of them is executed,
\* and a Reset that exits with 0 has executed them all.
C15_ResetOrderOfFiles ==
  (action = "reset" /\ type = "migration")
  => /\ Len(log) <= Cardinality(Matched)
     /\ \A j \in 1..Len(log) : log[j] = DownBodyOf(MatchedDesc(j))
     /\ \A j, k \in 1..Len(log) :
          j < k => StrLess(MatchedDesc(k), MatchedDesc(j))
     /\ Len(log) < Cardinality(Matched)
          => rows["migration"] = rows0["migration"]
     /\ (pc = "exit" /\ exitCode = 0) => Len(log) = Cardinality(Matched)

\* C15 as stated: a Reset of migrations that exits with 0 has executed the
\* DOWN body of each applied version exactly once, in strictly descending
\* order of the versions, and of no version that is not applied.
C15_ResetOrderOfVersions ==
  (Exited("reset", "migration") /\ exitCode = 0)
  => /\ \A j, k \in 1..Len(log) :
          j < k => StrLess(VersionOf(LogFile(k)), VersionOf(LogFile(j)))
     /\ {VersionOf(LogFile(j)) : j \in 1..Len(log)}
          = Applied(rows0["migration"])

\* C15's case: a Reset has executed the DOWN bodies of three matched files
\* and has cleared the ledger.
C15_Witness ==
  /\ Exited("reset", "migration") /\ exitCode = 0
  /\ Len(log) = 3
  /\ rows0["migration"] # <<>> /\ rows["migration"] = <<>>

\* C16: a Reset of migrations that exits with 0, on a directory with one
\* .sql file per version prefix and a ledger with one row per version, each
\* with its script, has executed the DOWN bodies that repeated Downs execute:
\* those of the applied versions, the most recently applied first.
C16_ResetAsRepeatedDown ==
  LET r0 == rows0["migration"]
      d  == dir["migration"]
  IN  ( /\ Exited("reset", "migration") /\ exitCode = 0
        /\ OnePerVersion(d)
        /\ Cardinality(Applied(r0)) = Len(r0)
        /\ \A v \in Applied(r0) : ScriptsOf(d, v) # {} )
      => /\ Len(log) = Len(Unwind(r0))
         /\ \A j \in 1..Len(log) :
              \E f \in ScriptsOf(d, Unwind(r0)[j]) : log[j] = DownBodyOf(f)

\* C16's case: a Reset has ended with 0 on a ledger whose most recently
\* applied version sorts below an earlier applied one, each with its script.
C16_Witness ==
  LET r0 == rows0["migration"]
  IN  /\ Exited("reset", "migration") /\ exitCode = 0
      /\ OnePerVersion(dir["migration"])
      /\ Len(r0) = 2 /\ Cardinality(Applied(r0)) = 2
      /\ \A v \in Applied(r0) : ScriptsOf(dir["migration"], v) # {}
      /\ \E v \in Applied(r0) : StrLess(LatestVersion(r0), v)

\* The versions whose UP body, and those whose DOWN body, the process has
\* executed.
LogVersions(which) ==
  {VersionOf(LogFile(j)) : j \in {k \in 1..Len(log) : log[k][1].text = which}}

\* C17: a process of kind migration that has ended, with or without a failed
\* query, leaves the ledger consistent with what it has executed: a version
\* whose UP body it executed is recorded, a version whose DOWN body it
\* executed is not, and a version of which it executed nothing is recorded
\* as it was before.  (A ledger that is consistent when the process starts
\* is then consistent when it ends.)
C17_LedgerConsistent ==
  LET r  == Applied(rows["migration"])
      r0 == Applied(rows0["migration"])
  IN  (pc = "exit" /\ type = "migration")
      => /\ LogVersions("up") \subseteq r
         /\ LogVersions("down") \cap r = {}
         /\ \A v \in (r \cup r0) \ (LogVersions("up") \cup LogVersions("down")) :
              v \in r <=> v \in r0

\* C17's case: an Up has ended on the failed INSERT of a version whose UP
\* body it had executed.
C17_Witness ==
  /\ Exited("up", "migration") /\ failStep = "up_insert"
  /\ Len(log) = 1
  /\ VersionOf(LogFile(1)) \notin Applied(rows["migration"])

\* C18: a process of one kind leaves the ledger of the other kind as it
\* found it, the table's existence and its rows.
C18_KindIsolation ==
  \A t \in Kinds :
    (pc # "idle" /\ type = t)
    => \A k \in Kinds \ {t} :
         rows[k] = rows0[k] /\ tableExists[k] = tables0[k]

\* C18's case: a Reset of migrations has ended with 0 that started when the
\* seed ledger recorded a seed.
C18_Witness ==
  /\ Exited("reset", "migration") /\ exitCode = 0
  /\ tables0["seed"] /\ rows0["seed"] # <<>>

\* C19: whatever the directory and the ledger hold, a Reset of migrations
\* executes a DOWN body only if every applied version has a .sql file of
\* that version, and when every applied version has one and no query fails
\* it passes the check: it exits with 0.
C19_ResetCheckExact ==
  (action = "reset" /\ type = "migration")
  => /\ log # <<>> => Covered(rows0["migration"], dir["migration"])
     /\ ( /\ pc = "exit" /\ AllOk /\ dirExists["migration"]
          /\ Covered(rows0["migration"], dir["migration"]) )
        => exitCode = 0

\* C19's case: a Reset has ended with 1 although no query failed and every
\* applied version has a .sql file: two files share a version prefix.
C19_Witness ==
  /\ Exited("reset", "migration") /\ AllOk /\ dirExists["migration"]
  /\ rows0["migration"] # <<>>
  /\ Covered(rows0["migration"], dir["migration"])
  /\ ~OnePerVersion(dir["migration"])
  /\ exitCode = 1

\* The place of a marker's first occurrence in a content, 0 when it has none.
FirstAt(c, marker) ==
  LET at == {k \in 1..Len(c) : c[k] = marker}
  IN  IF at = {} THEN 0 ELSE CHOOSE k \in at : \A m \in at : k <= m

\* The pieces of text of a part of a content.
TextOf(c) == SelectSeq(c, LAMBDA item : item.kind = "sql")

\* The up-body of the claim: the text after the UP marker up to the DOWN
\* marker that follows it, up to the end when none follows; nothing when
\* there is no UP marker.
ClaimUp(c) ==
  LET u    == FirstAt(c, MarkerUp)
      rest == SubSeq(c, u + 1, Len(c))
      d    == FirstAt(rest, MarkerDown)
  IN  IF u = 0 THEN <<>>
      ELSE TextOf(IF d = 0 THEN rest ELSE SubSeq(rest, 1, d - 1))

\* The down-body of the claim: the text after the DOWN marker to the end of
\* the file; nothing when there is no DOWN marker.
ClaimDown(c) ==
  LET d == FirstAt(c, MarkerDown)
  IN  IF d = 0 THEN <<>> ELSE TextOf(SubSeq(c, d + 1, Len(c)))

\* At most one marker of each sort, the UP marker first when it has both.
WellFormed(c) ==
  /\ Cardinality({k \in 1..Len(c) : c[k] = MarkerUp}) <= 1
  /\ Cardinality({k \in 1..Len(c) : c[k] = MarkerDown}) <= 1
  /\ FirstAt(c, MarkerUp) # 0 /\ FirstAt(c, MarkerDown) # 0
       => FirstAt(c, MarkerUp) < FirstAt(c, MarkerDown)

\* The bodies of Up, Down and Reset agree with the claim's, Down's and
\* Reset's are the same and no piece of text is in Up's and in Down's.
BodiesAsClaimed ==
  /\ log[1] = ClaimUp(content)
  /\ log[2] = ClaimDown(content)
  /\ log[3] = log[2]
  /\ {log[1][k] : k \in 1..Len(log[1])}
       \cap {log[2][k] : k \in 1..Len(log[2])} = {}

\* C20 as stated: for every content, Up executes the text between the UP
\* marker and the DOWN marker (to the end without a DOWN marker, nothing
\* without an UP marker), Down and Reset execute the text after the DOWN
\* marker to the end of the file (nothing without a DOWN marker), both the
\* same, and no text is in both bodies.
C20_BodiesOfAnyContent ==
  pc = "parsed" => BodiesAsClaimed

\* C20, amended: the same for every content with at most one UP marker and
\* at most one DOWN marker, the UP marker first when it has both; for every
\* content whatever, Down and Reset execute the same body and no text is in
\* Up's body and in Down's.
C20_BodiesOfWellFormedContent ==
  pc = "parsed"
  => /\ WellFormed(content) => BodiesAsClaimed
     /\ log[3] = log[2]
     /\ {log[1][k] : k \in 1..Len(log[1])}
          \cap {log[2][k] : k \in 1..Len(log[2])} = {}

\* C20's case: the bodies of a content with text before the UP marker, after
\* it and after the DOWN marker have been extracted.
C20_Witness ==
  /\ pc = "parsed"
  /\ WellFormed(content)
  /\ FirstAt(content, MarkerUp) = 2 /\ FirstAt(content, MarkerDown) = 4
  /\ log[1] # <<>>

====
